---- MODULE Spec2Model ----
(***************************************************************************)
(* Hash tables of src/src/hash_tables.py: the open-addressing table        *)
(* (linear, quadratic and double-hash probing, tombstone deletion, resize  *)
(* on load factor) and the separate-chaining table, over the division hash *)
(* of src/src/hash_functions.py.  One table instance exists per behaviour; *)
(* `kind` says which class it is.                                          *)
(***************************************************************************)
EXTENDS Integers, Sequences, FiniteSets, TLC

\* ------------------------------------------------------------------ bounds
MaxKey == 2          \* keys of the open-addressing table are drawn from 0..MaxKey
MaxVal == 2          \* values are drawn from 1..MaxVal
MaxInitSize == 3     \* the constructor's size argument is in 1..MaxInitSize
MaxSize == 4         \* an insert is not issued when it would grow the table beyond this
MaxCarry == 1        \* the caller resets the counters before a call once one exceeds this
MaxChainKey == 3     \* keys of the separate-chaining table are drawn from 0..MaxChainKey
MaxBurstKey == 6     \* keys of the distinct-key workload are drawn from 0..MaxBurstKey
MaxBurstSize == 6    \* the distinct-key workload does not grow the table beyond this
MaxDirectSize == 4   \* a direct-address table has 0..MaxDirectSize slots
MaxHashKey == 12     \* a hash function called on its own gets a key in -MaxHashKey..MaxHashKey
MaxHashSize == 5     \* and a table_size in 1..MaxHashSize
MaxParam == 2        \* a and b are in -MaxParam..MaxParam, p is in 1..MaxParam + 1
MaxStrLen == 2       \* string keys have at most MaxStrLen characters

Keys == 0..MaxKey
Values == 1..MaxVal
BurstKeys == 0..MaxBurstKey
ChainKeys == 0..MaxChainKey
ProbeTypes == {"linear", "quadratic", "double"}

\* kind, probe_type, thrNum / thrDen (load_factor_threshold) and size0 (the size
\* argument) are fixed by the constructor; size, count, table or buckets and the
\* two counters are the object's fields; live and inserted record what the caller
\* has done (live[k] is the value it expects for k, 0 for none).  peer is a
\* second table that a comparison drives with the same calls; there is none
\* outside the comparison.  hashed is the latest call of a function of
\* hash_functions.py made on its own, with its arguments and its result.
\* stack holds the frames of the call in progress when a call is followed
\* statement by statement, the innermost frame first; it is empty otherwise.
VARIABLES kind, size0, size, count, table, buckets, probe_type, thrNum, thrDen,
          probe_count, comparison_count, live, inserted, peer, hashed, stack

vars == <<kind, size0, size, count, table, buckets, probe_type, thrNum, thrDen,
          probe_count, comparison_count, live, inserted, peer, hashed, stack>>

\* what no call on the table changes
config == <<kind, size0, probe_type, thrNum, thrDen, peer, hashed, stack>>

\* ------------------------------------------------------------ hash function
\* division_hash with the remainder that truncates towards zero
division_hash_Trunc(key, table_size) ==
    IF key >= 0 THEN key % table_size ELSE 0 - ((0 - key) % table_size)

\* Python's % on integers with a positive modulus is the floor-mod, as is %
division_hash(key, table_size) == key % table_size

hash_func(key, table_size) == division_hash(key, table_size)

\* ------------------------------------------------------------------- slots
\* A slot of the open-addressing array: None, the DELETED sentinel, or (key, value).
None == [tag |-> "E", key |-> 0, val |-> 0]

\* DELETED that is the same object as None: delete empties the slot
DELETED_AsNone == [tag |-> "E", key |-> 0, val |-> 0]

DELETED == [tag |-> "D", key |-> 0, val |-> 0]
Entry(k, v) == [tag |-> "O", key |-> k, val |-> v]

\* AtThreshold with > for >=: the resize comes one insert late
AtThreshold_Strict(cnt, sz) == cnt * thrDen > thrNum * sz

\* count / size >= load_factor_threshold, the threshold being thrNum / thrDen
AtThreshold(cnt, sz) == cnt * thrDen >= thrNum * sz

\* ------------------------------------------------------------------ probing
_linear_probe(key, i, sz) == (hash_func(key, sz) + i) % sz

_quadratic_probe(key, i, sz) == (hash_func(key, sz) + 1 * i + 1 * i * i) % sz

\* key % (size - 1) divides by zero when size = 1
DoubleHashRaises(sz) == sz = 1

_double_hash(key, i, sz) == (hash_func(key, sz) + i * (1 + (key % (sz - 1)))) % sz

\* _probe raises: ValueError on an unknown probe_type, else ZeroDivisionError
\* out of _double_hash
ProbeRaises(sz) ==
    \/ probe_type \notin ProbeTypes
    \/ probe_type = "double" /\ DoubleHashRaises(sz)

\* ProbeError that lets the call return as if nothing had been raised
ProbeError_Silent(sz) == "ok"

\* the exception a raising _probe ends the call with
ProbeError(sz) == IF probe_type \notin ProbeTypes THEN "config" ELSE "zerodiv"

_probe(key, i, sz) ==
    CASE probe_type = "linear" -> _linear_probe(key, i, sz)
      [] probe_type = "quadratic" -> _quadratic_probe(key, i, sz)
      [] probe_type = "double" -> _double_hash(key, i, sz)

\* --------------------------------------------------- open addressing: state
\* The mutable fields of a HashTableOpenAddressing object, with the exception
\* (if any) that ended the call in progress.
OAState == [size |-> size, count |-> count, table |-> table,
            probes |-> probe_count, comps |-> comparison_count, err |-> "ok"]

RECURSIVE InsertLoop(_, _, _, _)
RECURSIVE OA_insert(_, _, _)
RECURSIVE Rehash(_, _, _)

\* InsertSlot without self.count += 1
InsertSlot_NoCount(s, index, k, v) ==
    [s EXCEPT !.table[index] = Entry(k, v)]

\* Place (k, v) in the first None or DELETED slot of the probe sequence
InsertSlot(s, index, k, v) ==
    [s EXCEPT !.table[index] = Entry(k, v), !.count = @ + 1]

\* the while loop of insert, from probe number i
InsertLoop(s, k, v, i) ==
    IF i >= s.size THEN [s EXCEPT !.err = "full"]
    ELSE IF ProbeRaises(s.size) THEN [s EXCEPT !.err = ProbeError(s.size)]
    ELSE LET index == _probe(k, i, s.size)
             s1 == [s EXCEPT !.probes = @ + 1]
             entry == s.table[index]
         IN  IF entry.tag \in {"E", "D"}
             THEN InsertSlot(s1, index, k, v)
             ELSE IF entry.key = k
                  THEN [s1 EXCEPT !.comps = @ + 1, !.table[index] = Entry(k, v)]
                  ELSE InsertLoop([s1 EXCEPT !.comps = @ + 1], k, v, i + 1)

\* the for loop of _resize over old_table, from index j
Rehash(s, old_table, j) ==
    IF s.err # "ok" \/ j \notin DOMAIN old_table THEN s
    ELSE IF old_table[j].tag = "O"
         THEN Rehash(OA_insert(s, old_table[j].key, old_table[j].val), old_table, j + 1)
         ELSE Rehash(s, old_table, j + 1)

OA_resize(s) ==
    Rehash([s EXCEPT !.size = 2 * s.size, !.count = 0,
                     !.table = [i \in 0..(2 * s.size - 1) |-> None]],
           s.table, 0)

OA_insert(s, k, v) ==
    LET s1 == IF AtThreshold(s.count, s.size) THEN OA_resize(s) ELSE s
    IN  IF s1.err # "ok" THEN s1 ELSE InsertLoop(s1, k, v, 0)

RECURSIVE SearchLoop(_, _, _)
\* SearchLoop that takes the probe number from self._probe_count instead of i
SearchLoop_CounterIndex(s, k, i) ==
    IF i >= s.size THEN [s |-> s, ret |-> 0]
    ELSE IF ProbeRaises(s.size) THEN [s |-> [s EXCEPT !.err = ProbeError(s.size)], ret |-> 0]
    ELSE LET index == _probe(k, s.probes, s.size)
             s1 == [s EXCEPT !.probes = @ + 1]
             entry == s.table[index]
         IN  IF entry.tag = "E" THEN [s |-> s1, ret |-> 0]
             ELSE IF entry.tag # "D" /\ entry.key = k
                  THEN [s |-> [s1 EXCEPT !.comps = @ + 1], ret |-> entry.val]
                  ELSE SearchLoop([s1 EXCEPT !.comps = @ + 1], k, i + 1)

\* the while loop of search, from probe number i; ret is the value or 0 for None
SearchLoop(s, k, i) ==
    IF i >= s.size THEN [s |-> s, ret |-> 0]
    ELSE IF ProbeRaises(s.size) THEN [s |-> [s EXCEPT !.err = ProbeError(s.size)], ret |-> 0]
    ELSE LET index == _probe(k, i, s.size)
             s1 == [s EXCEPT !.probes = @ + 1]
             entry == s.table[index]
         IN  IF entry.tag = "E" THEN [s |-> s1, ret |-> 0]
             ELSE IF entry.tag # "D" /\ entry.key = k
                  THEN [s |-> [s1 EXCEPT !.comps = @ + 1], ret |-> entry.val]
                  ELSE SearchLoop([s1 EXCEPT !.comps = @ + 1], k, i + 1)

OA_search(s, k) == SearchLoop(s, k, 0)

RECURSIVE DeleteLoop(_, _, _)
\* the while loop of delete, from probe number i
DeleteLoop(s, k, i) ==
    IF i >= s.size THEN [s |-> s, ret |-> FALSE]
    ELSE IF ProbeRaises(s.size) THEN [s |-> [s EXCEPT !.err = ProbeError(s.size)], ret |-> FALSE]
    ELSE LET index == _probe(k, i, s.size)
             entry == s.table[index]
         IN  IF entry.tag = "E" THEN [s |-> s, ret |-> FALSE]
             ELSE IF entry.tag # "D" /\ entry.key = k
                  THEN [s |-> [s EXCEPT !.table[index] = DELETED, !.count = @ - 1],
                        ret |-> TRUE]
                  ELSE DeleteLoop(s, k, i + 1)

OA_delete(s, k) == DeleteLoop(s, k, 0)

\* ------------------------------------------------ separate chaining: state
\* A chain is the sequence of its nodes from the head; a node is (key, value).
Node(k, v) == [key |-> k, val |-> v]

SCState == [size |-> size, count |-> count, buckets |-> buckets,
            comps |-> comparison_count]

RECURSIVE FindInChain(_, _, _)
\* FindInChain that never matches a key: the scan runs off the end of the chain
FindInChain_Miss(chain, k, p) == 0

\* position of the first node of chain with the key, 0 when there is none
FindInChain(chain, k, p) ==
    IF p > Len(chain) THEN 0
    ELSE IF chain[p].key = k THEN p
    ELSE FindInChain(chain, k, p + 1)

RECURSIVE SC_insert(_, _, _)
RECURSIVE RehashChain(_, _, _)
RECURSIVE RehashBuckets(_, _, _)

\* the inner while loop of _resize: the nodes of one old chain from node p
RehashChain(s, chain, p) ==
    IF p > Len(chain) THEN s
    ELSE RehashChain(SC_insert(s, chain[p].key, chain[p].val), chain, p + 1)

\* the for loop of _resize over old_buckets, from bucket j
RehashBuckets(s, old_buckets, j) ==
    IF j \notin DOMAIN old_buckets THEN s
    ELSE RehashBuckets(RehashChain(s, old_buckets[j], 1), old_buckets, j + 1)

\* SC_resize without self.size *= 2: the entries are rehashed into as many buckets
SC_resize_SameSize(s) ==
    RehashBuckets([s EXCEPT !.count = 0,
                            !.buckets = [i \in 0..(s.size - 1) |-> <<>>]],
                  s.buckets, 0)

SC_resize(s) ==
    RehashBuckets([s EXCEPT !.size = 2 * s.size, !.count = 0,
                            !.buckets = [i \in 0..(2 * s.size - 1) |-> <<>>]],
                  s.buckets, 0)

\* Prepend without new_node.next = self.buckets[index]: the chain is dropped
Prepend_DropChain(chain, k, v) == <<Node(k, v)>>

\* the new node goes to the head of the chain
Prepend(chain, k, v) == <<Node(k, v)>> \o chain

SC_insert(s, k, v) ==
    LET s1 == IF AtThreshold(s.count, s.size) THEN SC_resize(s) ELSE s
        index == hash_func(k, s1.size)
        chain == s1.buckets[index]
        p == FindInChain(chain, k, 1)
    IN  IF p > 0
        THEN [s1 EXCEPT !.comps = @ + p, !.buckets[index][p].val = v]
        ELSE [s1 EXCEPT !.comps = @ + Len(chain),
                        !.buckets[index] = Prepend(chain, k, v),
                        !.count = @ + 1]

SC_search(s, k) ==
    LET chain == s.buckets[hash_func(k, s.size)]
        p == FindInChain(chain, k, 1)
    IN  IF p > 0
        THEN [s |-> [s EXCEPT !.comps = @ + p], ret |-> chain[p].val]
        ELSE [s |-> [s EXCEPT !.comps = @ + Len(chain)], ret |-> 0]

\* Unlink that cuts the chain at the node: the nodes after it are lost
Unlink_DropTail(chain, p) == SubSeq(chain, 1, p - 1)

\* chain without its node at position p
Unlink(chain, p) == SubSeq(chain, 1, p - 1) \o SubSeq(chain, p + 1, Len(chain))

SC_delete(s, k) ==
    LET index == hash_func(k, s.size)
        chain == s.buckets[index]
        p == FindInChain(chain, k, 1)
    IN  IF p > 0
        THEN [s |-> [s EXCEPT !.buckets[index] = Unlink(chain, p), !.count = @ - 1],
              ret |-> TRUE]
        ELSE [s |-> s, ret |-> FALSE]

\* one length per element of self.buckets, in bucket order
get_chain_lengths(s) ==
    [i \in 1..Cardinality(DOMAIN s.buckets) |-> Len(s.buckets[i - 1])]

\* ------------------------------------------------------------ construction
NoTable == <<>>

\* no call is being followed
NoFrames == <<>>

\* no hash function has been called on its own
NoCall == [fn |-> "none", args |-> <<>>, table_size |-> 1, done |-> FALSE, index |-> 0]

\* HashTableOpenAddressing(sz, probe_type = pt), default threshold 0.75
NewOA(sz, pt) ==
    /\ kind = "oa"
    /\ size0 = sz
    /\ size = sz
    /\ count = 0
    /\ table = [i \in 0..(sz - 1) |-> None]
    /\ buckets = NoTable
    /\ probe_type = pt
    /\ thrNum = 3 /\ thrDen = 4
    /\ probe_count = 0
    /\ comparison_count = 0
    /\ live = [k \in Keys \cup BurstKeys \cup ChainKeys |-> 0]
    /\ inserted = {}
    /\ peer = NoTable
    /\ hashed = NoCall
    /\ stack = NoFrames

\* HashTableSeparateChaining(sz), default threshold 1.0
NewSC(sz) ==
    /\ kind = "sc"
    /\ size0 = sz
    /\ size = sz
    /\ count = 0
    /\ table = NoTable
    /\ buckets = [i \in 0..(sz - 1) |-> <<>>]
    /\ probe_type = "none"
    /\ thrNum = 1 /\ thrDen = 1
    /\ probe_count = 0
    /\ comparison_count = 0
    /\ live = [k \in Keys \cup BurstKeys \cup ChainKeys |-> 0]
    /\ inserted = {}
    /\ peer = NoTable
    /\ hashed = NoCall
    /\ stack = NoFrames

InitOA == \E sz \in 1..MaxInitSize, pt \in ProbeTypes : NewOA(sz, pt)

InitSC == \E sz \in 1..MaxInitSize : NewSC(sz)

Init == InitOA \/ InitSC

\* ------------------------------------------------- open addressing: actions
\* The caller issues an operation only on counters it has kept small.
CountersLow == probe_count <= MaxCarry /\ comparison_count <= MaxCarry

SetOA(s) ==
    /\ size' = s.size
    /\ count' = s.count
    /\ table' = s.table
    /\ probe_count' = s.probes
    /\ comparison_count' = s.comps
    /\ UNCHANGED <<buckets, config>>

OAInsertCall(k, v, maxSize) ==
    /\ kind = "oa"
    /\ CountersLow
    /\ LET s == OA_insert(OAState, k, v)
       IN  s.size <= maxSize /\ SetOA(s)

OADeleteCall(k) ==
    /\ kind = "oa"
    /\ CountersLow
    /\ SetOA(OA_delete(OAState, k).s)

OAInsert(k, v) == OAInsertCall(k, v, MaxSize) /\ UNCHANGED <<live, inserted>>

OASearch(k) ==
    /\ kind = "oa"
    /\ CountersLow
    /\ SetOA(OA_search(OAState, k).s)
    /\ UNCHANGED <<live, inserted>>

OADelete(k) == OADeleteCall(k) /\ UNCHANGED <<live, inserted>>

OAResetCounts ==
    /\ kind = "oa"
    /\ probe_count' = 0
    /\ comparison_count' = 0
    /\ UNCHANGED <<size, count, table, buckets, config, live, inserted>>

NextOA ==
    \/ \E k \in Keys, v \in Values : OAInsert(k, v)
    \/ \E k \in Keys : OASearch(k)
    \/ \E k \in Keys : OADelete(k)
    \/ OAResetCounts

SpecOA == InitOA /\ [][NextOA]_vars

\* ------------------------------------------------ separate chaining: actions
SetSC(s) ==
    /\ size' = s.size
    /\ count' = s.count
    /\ buckets' = s.buckets
    /\ comparison_count' = s.comps
    /\ UNCHANGED <<table, probe_count, config>>

SCInsertCall(k, v, maxSize) ==
    /\ kind = "sc"
    /\ LET s == SC_insert(SCState, k, v)
       IN  s.size <= maxSize /\ SetSC(s)

SCInsert(k, v) ==
    /\ CountersLow
    /\ SCInsertCall(k, v, MaxSize)
    /\ live' = [live EXCEPT ![k] = v]
    /\ UNCHANGED inserted

SCSearch(k) ==
    /\ kind = "sc"
    /\ CountersLow
    /\ SetSC(SC_search(SCState, k).s)
    /\ UNCHANGED <<live, inserted>>

SCDelete(k) ==
    /\ kind = "sc"
    /\ CountersLow
    /\ SetSC(SC_delete(SCState, k).s)
    /\ live' = [live EXCEPT ![k] = 0]
    /\ UNCHANGED inserted

SCResetCounts ==
    /\ kind = "sc"
    /\ comparison_count' = 0
    /\ UNCHANGED <<size, count, table, buckets, probe_count, config, live, inserted>>

NextSC ==
    \/ \E k \in ChainKeys, v \in Values : SCInsert(k, v)
    \/ \E k \in ChainKeys : SCSearch(k)
    \/ \E k \in ChainKeys : SCDelete(k)
    \/ SCResetCounts

SpecSC == InitSC /\ [][NextSC]_vars

Next == NextOA \/ NextSC

Spec == Init /\ [][Next]_vars

\* ------------------------------------- open addressing: distinct-key workload
\* Inserts of pairwise distinct keys, each with the value the workload gives it,
\* interleaved with deletes of keys it has inserted; live is what the caller has
\* inserted and not deleted since.
ValueOf(k) == 1 + (k % MaxVal)

InitBurst == \E pt \in ProbeTypes : NewOA(3, pt)

BurstInsert(k) ==
    /\ k \notin inserted
    /\ OAInsertCall(k, ValueOf(k), MaxBurstSize)
    /\ inserted' = inserted \cup {k}
    /\ live' = IF OA_insert(OAState, k, ValueOf(k)).err = "ok"
               THEN [live EXCEPT ![k] = ValueOf(k)]
               ELSE live

BurstDelete(k) ==
    /\ live[k] # 0
    /\ OADeleteCall(k)
    /\ live' = [live EXCEPT ![k] = 0]
    /\ UNCHANGED inserted

NextBurst ==
    \/ \E k \in BurstKeys : BurstInsert(k)
    \/ \E k \in BurstKeys : BurstDelete(k)
    \/ OAResetCounts

SpecBurst == InitBurst /\ [][NextBurst]_vars

\* ---------------------------------------- separate chaining: the test scenario
\* test_chain_lengths: HashTableSeparateChaining(5), then insert(i, value) for
\* i = 0 .. 9 in order; inserted holds the keys inserted so far.
ScenarioSize == 5
ScenarioKeys == 10

InitScenario == NewSC(ScenarioSize)

ScenarioInsert(v) ==
    /\ Cardinality(inserted) < ScenarioKeys
    /\ SCInsertCall(Cardinality(inserted), v, 2 * ScenarioKeys)
    /\ inserted' = inserted \cup {Cardinality(inserted)}
    /\ UNCHANGED live

NextScenario == \E v \in Values : ScenarioInsert(v)

SpecScenario == InitScenario /\ [][NextScenario]_vars

\* ------------------------------------------------------------------ helpers
\* some Occupied slot holds key k
OAStored(k) == \E i \in DOMAIN table : table[i].tag = "O" /\ table[i].key = k

\* some node of some chain holds key k
SCStored(k) == \E i \in DOMAIN buckets : \E p \in 1..Len(buckets[i]) : buckets[i][p].key = k

Stored(k) == IF kind = "oa" THEN OAStored(k) ELSE SCStored(k)

RECURSIVE SumSeq(_)
SumSeq(q) == IF q = <<>> THEN 0 ELSE Head(q) + SumSeq(Tail(q))

\* what search(k) returns on the current table (0 for None)
OAFind(k) == OA_search(OAState, k).ret
SCFind(k) == SC_search(SCState, k).ret

\* the table has been resized since its construction
Resized == size > size0

\* all the scenario's inserts have been made
ScenarioDone == Cardinality(inserted) = ScenarioKeys

\* ------------------------------------------------------------------- claims
\* C1: open addressing, any probe type: after inserts of pairwise distinct keys
\* interleaved with deletes, every key inserted and not deleted since is found
\* by search with the value given at its insert.
C1_RoundTripDistinct ==
    \A k \in BurstKeys : live[k] # 0 => OAFind(k) = live[k]

\* C2: no two Occupied slots of an open-addressing table hold the same key.
C2_OccupiedKeysUnique ==
    kind = "oa" =>
        \A i, j \in DOMAIN table :
            (i # j /\ table[i].tag = "O" /\ table[j].tag = "O") => table[i].key # table[j].key

\* C3: open addressing: an insert(k, v2) of a stored key k that returns normally
\* makes search(k) return v2 and leaves count unchanged.
C3_UpdateKeepsCount ==
    [][\A k \in Keys, v2 \in Values :
          (OAStored(k) /\ OAInsert(k, v2) /\ OA_insert(OAState, k, v2).err = "ok")
          => (OAFind(k)' = v2 /\ count' = count)]_vars

\* C4: open addressing: whenever delete(k) returns True, a search(k) that follows
\* immediately returns None.
C4_DeletedNotFound ==
    [][\A k \in Keys :
          (OADelete(k) /\ OA_delete(OAState, k).ret) => OAFind(k)' = 0]_vars

\* count and size after insert(k, v) on the current table when it returns
\* normally, else the empty set
AfterInsert(k, v) ==
    IF kind = "oa"
    THEN LET s == OA_insert(OAState, k, v)
         IN  IF s.err = "ok" THEN {<<s.count, s.size>>} ELSE {}
    ELSE LET s == SC_insert(SCState, k, v) IN {<<s.count, s.size>>}

\* the keys the table's callers use
KeysOf == IF kind = "oa" THEN Keys ELSE ChainKeys

\* C5 (as stated): immediately after every insert that returns normally,
\* count / size < load_factor_threshold.  Stated on the result of every insert
\* that can be called in a reachable state.
C5_LoadBelowThreshold ==
    \A k \in KeysOf, v \in Values :
        \A cs \in AfterInsert(k, v) : cs[1] * thrDen < thrNum * cs[2]

\* C5 (amended): immediately after every insert that returns normally, with the
\* default thresholds, (count - 1) / size < load_factor_threshold.
C5_LoadBelowThresholdBeforePlacing ==
    \A k \in KeysOf, v \in Values :
        \A cs \in AfterInsert(k, v) : (cs[1] - 1) * thrDen < thrNum * cs[2]

\* inserts have returned and left a resized table with the load factor at or
\* above the threshold
C5_Witness ==
    Resized /\ count >= 2 /\ AtThreshold(count, size)

\* C6: open addressing: an insert that triggers a resize and returns normally
\* leaves the search result of every other stored key unchanged.
C6_ResizePreservesEntries ==
    [][\A k \in Keys, v \in Values :
          (OAInsert(k, v) /\ OA_insert(OAState, k, v).err = "ok" /\ size' # size)
          => \A k2 \in Keys \ {k} : OAStored(k2) => OAFind(k2)' = OAFind(k2)]_vars

\* C7: separate chaining: search(k) returns the value of the latest insert(k, .)
\* if k has not been deleted since, and None otherwise.
C7_ChainingRoundTrip ==
    kind = "sc" => \A k \in ChainKeys : SCFind(k) = live[k]

\* a resized table with two keys in one chain, both values in use, and a key
\* that is absent
C7_Witness ==
    /\ kind = "sc"
    /\ Resized
    /\ \E i \in DOMAIN buckets : Len(buckets[i]) >= 2
    /\ \E k1, k2 \in ChainKeys : live[k1] = 1 /\ live[k2] = 2
    /\ \E k \in ChainKeys : live[k] = 0 /\ ~SCStored(k)

\* C8: separate chaining: get_chain_lengths() has size entries that sum to count.
C8_ChainLengths ==
    kind = "sc" =>
        /\ Len(get_chain_lengths(SCState)) = size
        /\ SumSeq(get_chain_lengths(SCState)) = count

\* a resized table with a chain of two nodes and an empty bucket
C8_Witness ==
    /\ kind = "sc"
    /\ Resized
    /\ count >= 2
    /\ \E i \in DOMAIN buckets : Len(buckets[i]) >= 2
    /\ \E i \in DOMAIN buckets : Len(buckets[i]) = 0

\* C9 (as stated): after the scenario, 10 / size < threshold and the chain
\* lengths sum to 10.
C9_ScenarioBelowThreshold ==
    ScenarioDone =>
        /\ ScenarioKeys * thrDen < thrNum * size
        /\ SumSeq(get_chain_lengths(SCState)) = ScenarioKeys

\* C9 (amended): after the scenario, size is 10, 10 / size <= threshold (the load
\* factor equals the threshold) and the chain lengths sum to 10.
C9_ScenarioAtThreshold ==
    ScenarioDone =>
        /\ size = 2 * ScenarioSize
        /\ ScenarioKeys * thrDen <= thrNum * size
        /\ SumSeq(get_chain_lengths(SCState)) = ScenarioKeys

\* the ten inserts are done and the table has been resized
C9_Witness == ScenarioDone /\ count = ScenarioKeys /\ Resized

\* C10: delete(k) of a key that is not stored returns False and leaves slots or
\* chains, count, size and the instrumentation counters unchanged.  Such a call
\* changes no variable, so it is stated on the call's result in every state.
C10_DeleteMissKeepsState ==
    \A k \in KeysOf :
        ~Stored(k) =>
            IF kind = "oa"
            THEN OA_delete(OAState, k) = [s |-> OAState, ret |-> FALSE]
            ELSE SC_delete(SCState, k) = [s |-> SCState, ret |-> FALSE]


\* ------------------------------------- separate chaining: one crowded bucket
\* A table of ChainSize buckets and the keys that hash to its bucket 0, with one
\* key of another bucket: chains grow to three nodes before the first resize.
ChainSize == 3

CollidingKeys == {k \in BurstKeys : hash_func(k, ChainSize) = 0} \cup {1}

InitCrowded == NewSC(ChainSize)

\* insert, with one resize of the table within reach
CrowdedInsert(k, v) ==
    /\ CountersLow
    /\ SCInsertCall(k, v, 2 * ChainSize)
    /\ live' = [live EXCEPT ![k] = v]
    /\ UNCHANGED inserted

NextCrowded ==
    \/ \E k \in CollidingKeys, v \in Values : CrowdedInsert(k, v)
    \/ \E k \in CollidingKeys : SCSearch(k)
    \/ \E k \in CollidingKeys : SCDelete(k)
    \/ SCResetCounts

SpecCrowded == InitCrowded /\ [][NextCrowded]_vars

\* number of nodes in all chains
NodeCount(s) == SumSeq(get_chain_lengths(s))

\* C11: separate chaining: insert(k, v2) of a stored key k makes search(k) return
\* v2, adds no node and leaves count unchanged, also when the insert resizes
\* first.  Stated on the result of every such insert in a reachable state.
C11_ChainingUpdateInPlace ==
    kind = "sc" =>
        \A k \in ChainKeys, v2 \in Values :
            SCStored(k) =>
                LET s == SC_insert(SCState, k, v2)
                IN  /\ SC_search(s, k).ret = v2
                    /\ NodeCount(s) = NodeCount(SCState)
                    /\ s.count = count

\* a stored key can be re-inserted with another value on a table at its
\* threshold, so that the insert resizes first
C11_Witness ==
    /\ kind = "sc"
    /\ AtThreshold(count, size)
    /\ 2 * size <= MaxSize
    /\ \E k \in ChainKeys : live[k] = 1 /\ SCStored(k)
    /\ comparison_count <= MaxCarry

\* C12: separate chaining: delete(k) of a stored key returns True, decrements
\* count by one, makes search(k) return None and leaves the search result of
\* every other key unchanged, wherever k's node is in its chain.
C12_ChainingDelete ==
    kind = "sc" =>
        \A k \in CollidingKeys :
            SCStored(k) =>
                LET r == SC_delete(SCState, k)
                IN  /\ r.ret
                    /\ r.s.count = count - 1
                    /\ SC_search(r.s, k).ret = 0
                    /\ \A k2 \in CollidingKeys \ {k} :
                           SC_search(r.s, k2).ret = SCFind(k2)

\* a chain of three nodes: its head, middle and tail can each be deleted
C12_Witness ==
    /\ kind = "sc"
    /\ \E i \in DOMAIN buckets : Len(buckets[i]) >= 3
    /\ comparison_count <= MaxCarry


\* ---------------------------------------------- the two tables side by side
\* A linear-probing open-addressing table and a separate-chaining table (peer),
\* constructed with the same size and the same load_factor_threshold (the
\* default of either class), receive the same calls.
Thresholds == {<<3, 4>>, <<1, 1>>}

NewPair(sz, t) ==
    /\ kind = "oa"
    /\ size0 = sz
    /\ size = sz
    /\ count = 0
    /\ table = [i \in 0..(sz - 1) |-> None]
    /\ buckets = NoTable
    /\ probe_type = "linear"
    /\ thrNum = t[1] /\ thrDen = t[2]
    /\ probe_count = 0
    /\ comparison_count = 0
    /\ live = [k \in Keys \cup BurstKeys \cup ChainKeys |-> 0]
    /\ inserted = {}
    /\ peer = [size |-> sz, count |-> 0, buckets |-> [i \in 0..(sz - 1) |-> <<>>],
               comps |-> 0]
    /\ hashed = NoCall
    /\ stack = NoFrames

InitPair == \E sz \in 1..MaxInitSize, t \in Thresholds : NewPair(sz, t)

\* the fields of both tables after a call; s is the OAState, q the SCState
SetPair(s, q) ==
    /\ size' = s.size
    /\ count' = s.count
    /\ table' = s.table
    /\ probe_count' = s.probes
    /\ comparison_count' = s.comps
    /\ peer' = q
    /\ UNCHANGED <<kind, size0, probe_type, thrNum, thrDen, buckets, live, inserted, hashed, stack>>

PairCountersLow == CountersLow /\ peer.comps <= MaxCarry

PairInsert(k, v) ==
    /\ PairCountersLow
    /\ LET s == OA_insert(OAState, k, v)
           q == SC_insert(peer, k, v)
       IN  s.size <= MaxSize /\ q.size <= MaxSize /\ SetPair(s, q)

PairSearch(k) ==
    /\ PairCountersLow
    /\ SetPair(OA_search(OAState, k).s, SC_search(peer, k).s)

PairDelete(k) ==
    /\ PairCountersLow
    /\ SetPair(OA_delete(OAState, k).s, SC_delete(peer, k).s)

PairResetCounts ==
    /\ probe_count' = 0
    /\ comparison_count' = 0
    /\ peer' = [peer EXCEPT !.comps = 0]
    /\ UNCHANGED <<kind, size0, size, count, table, buckets, probe_type, thrNum,
                   thrDen, live, inserted, hashed, stack>>

NextPair ==
    \/ \E k \in Keys, v \in Values : PairInsert(k, v)
    \/ \E k \in Keys : PairSearch(k)
    \/ \E k \in Keys : PairDelete(k)
    \/ PairResetCounts

SpecPair == InitPair /\ [][NextPair]_vars

\* C13: after the same sequence of insert, search and delete calls, the
\* linear-probing table and the separate-chaining table return the same value
\* from search(k) and the same result from delete(k), for every key k.
C13_SameResults ==
    \A k \in Keys :
        /\ OA_search(OAState, k).ret = SC_search(peer, k).ret
        /\ OA_delete(OAState, k).ret = SC_delete(peer, k).ret


\* ------------------------------------------------------ direct-address table
\* DirectAddressTable: self.size and self.table, a list of size optional values
\* (0 for None).  Keys are drawn from one below the smallest index to the size
\* of the largest table, so that both kinds of out-of-range key occur.
DirectKeys == -1..MaxDirectSize

\* InRange that admits key = size
InRange_Inclusive(key, sz) == 0 <= key /\ key <= sz

\* 0 <= key < self.size
InRange(key, sz) == 0 <= key /\ key < sz

\* Store that writes the value to every slot
Store_All(tbl, key, value) == [j \in DOMAIN tbl |-> value]

\* self.table[key] = value
Store(tbl, key, value) == [tbl EXCEPT ![key] = value]

DAState == [size |-> size, table |-> table, err |-> "ok"]

\* insert raises ValueError on a key out of range
DA_insert(s, key, value) ==
    IF ~InRange(key, s.size) THEN [s EXCEPT !.err = "range"]
    ELSE [s EXCEPT !.table = Store(s.table, key, value)]

\* the value search returns, 0 for None
DA_search(s, key) ==
    IF ~InRange(key, s.size) THEN 0 ELSE s.table[key]

DA_delete(s, key) ==
    IF InRange(key, s.size) THEN [s EXCEPT !.table = Store(s.table, key, 0)] ELSE s

\* DirectAddressTable(sz)
NewDA(sz) ==
    /\ kind = "da"
    /\ size0 = sz
    /\ size = sz
    /\ count = 0
    /\ table = [i \in 0..(sz - 1) |-> 0]
    /\ buckets = NoTable
    /\ probe_type = "none"
    /\ thrNum = 1 /\ thrDen = 1
    /\ probe_count = 0
    /\ comparison_count = 0
    /\ live = [k \in DirectKeys |-> 0]
    /\ inserted = {}
    /\ peer = NoTable
    /\ hashed = NoCall
    /\ stack = NoFrames

InitDA == \E sz \in 0..MaxDirectSize : NewDA(sz)

SetDA(s) ==
    /\ size' = s.size
    /\ table' = s.table
    /\ UNCHANGED <<count, buckets, probe_count, comparison_count, config, inserted>>

DAInsert(k, v) ==
    /\ kind = "da"
    /\ SetDA(DA_insert(DAState, k, v))
    /\ live' = IF DA_insert(DAState, k, v).err = "ok" THEN [live EXCEPT ![k] = v] ELSE live

\* search reads the table and changes nothing
DASearch(k) ==
    /\ kind = "da"
    /\ DA_search(DAState, k) \in {0} \cup Values
    /\ UNCHANGED vars

DADelete(k) ==
    /\ kind = "da"
    /\ SetDA(DA_delete(DAState, k))
    /\ live' = [live EXCEPT ![k] = 0]

NextDA ==
    \/ \E k \in DirectKeys, v \in Values : DAInsert(k, v)
    \/ \E k \in DirectKeys : DASearch(k)
    \/ \E k \in DirectKeys : DADelete(k)

SpecDA == InitDA /\ [][NextDA]_vars

\* C14: direct-address table: insert with a key outside [0, size) raises the
\* out-of-range error and leaves the table unchanged; search with such a key
\* returns None without raising; delete with such a key changes nothing.
C14_OutOfRange ==
    kind = "da" =>
        \A k \in DirectKeys :
            (k < 0 \/ k >= size) =>
                /\ \A v \in Values : DA_insert(DAState, k, v) = [DAState EXCEPT !.err = "range"]
                /\ DA_search(DAState, k) = 0
                /\ DA_delete(DAState, k) = DAState

\* a table with values stored and out-of-range keys on both sides
C14_Witness ==
    /\ kind = "da"
    /\ size >= 2
    /\ size < MaxDirectSize
    /\ \E i, j \in DOMAIN table : table[i] = 1 /\ table[j] = 2

\* C15: direct-address table: search(k) of an in-range key returns the value of
\* the latest insert(k, .) not followed by a delete(k), None otherwise; an insert
\* or delete on key k changes the slot of no other key; size never changes.
C15_DirectRoundTrip ==
    kind = "da" =>
        /\ size = size0
        /\ \A k \in DOMAIN table : DA_search(DAState, k) = live[k]
        /\ \A k \in DOMAIN table : \A j \in DOMAIN table \ {k} :
              /\ \A v \in Values : DA_insert(DAState, k, v).table[j] = table[j]
              /\ DA_delete(DAState, k).table[j] = table[j]
        /\ \A k \in DirectKeys, v \in Values :
              /\ DA_insert(DAState, k, v).size = size0
              /\ DA_delete(DAState, k).size = size0

\* a table holding both values and an empty slot whose key was deleted
C15_Witness ==
    /\ kind = "da"
    /\ size >= 3
    /\ \E i, j, d \in DOMAIN table : table[i] = 1 /\ table[j] = 2 /\ table[d] = 0


\* C16: open addressing: every insert(k, v) either returns normally with k
\* stored, so that a search(k) right after it returns v, or raises the
\* table-full error after size probe attempts.  Stated on the result of every
\* insert that can be called in a reachable state.
C16_InsertStoresOrFull ==
    kind = "oa" =>
        \A k \in Keys, v \in Values :
            LET s == OA_insert(OAState, k, v)
            IN  \/ s.err = "ok" /\ OA_search(s, k).ret = v
                \/ s.err = "full"


\* --------------------------------------- open addressing: any probe_type
\* The constructor stores whatever probe_type it is given; "cubic" stands for
\* the strings that _probe does not know.
UnknownProbeTypes == {"cubic"}

InitAnyProbe ==
    \E sz \in 1..MaxInitSize, pt \in ProbeTypes \cup UnknownProbeTypes : NewOA(sz, pt)

SpecAnyProbe == InitAnyProbe /\ [][NextOA]_vars

\* C17: an open-addressing table with an unknown probe_type raises the
\* configuration error from every insert, search and delete, stores no entry and
\* returns none.
C17_UnknownProbeType ==
    (kind = "oa" /\ probe_type \notin ProbeTypes) =>
        /\ \A i \in DOMAIN table : table[i].tag # "O"
        /\ \A k \in Keys :
              /\ \A v \in Values :
                    LET s == OA_insert(OAState, k, v)
                    IN  /\ s.err = "config"
                        /\ \A i \in DOMAIN s.table : s.table[i].tag # "O"
              /\ OA_search(OAState, k).s.err = "config"
              /\ OA_search(OAState, k).ret = 0
              /\ OA_delete(OAState, k).s.err = "config"
              /\ OA_delete(OAState, k).ret = FALSE

\* a table of several slots constructed with an unknown probe_type
C17_Witness ==
    kind = "oa" /\ probe_type \in UnknownProbeTypes /\ size >= 2


\* ------------------------------------------------- hash functions on their own
\* universal_hash without the final % table_size
universal_hash_NoFinalMod(key, table_size, a, b, p) == (a * key + b) % p

universal_hash(key, table_size, a, b, p) == ((a * key + b) % p) % table_size

\* A str is the sequence of the code points (ord) of its characters.
RECURSIVE SimpleLoop(_, _, _)
\* the for loop of string_hash_simple from character i
SimpleLoop(key, i, hash_value) ==
    IF i > Len(key) THEN hash_value
    ELSE SimpleLoop(key, i + 1, hash_value + key[i])

string_hash_simple(key, table_size) == SimpleLoop(key, 1, 0) % table_size

RECURSIVE PolynomialLoop(_, _, _, _, _)
\* the for loop of string_hash_polynomial from character i
PolynomialLoop(key, i, hash_value, table_size, base) ==
    IF i > Len(key) THEN hash_value
    ELSE PolynomialLoop(key, i + 1, (hash_value * base + key[i]) % table_size,
                        table_size, base)

string_hash_polynomial(key, table_size, base) ==
    PolynomialLoop(key, 1, 0, table_size, base)

RECURSIVE Djb2Loop(_, _, _)
\* the for loop of string_hash_djb2 from character i; h << 5 is h * 32
Djb2Loop(key, i, hash_value) ==
    IF i > Len(key) THEN hash_value
    ELSE Djb2Loop(key, i + 1, ((hash_value * 32) + hash_value) + key[i])

string_hash_djb2(key, table_size) == Djb2Loop(key, 1, 5381) % table_size

HashKeys == (0 - MaxHashKey)..MaxHashKey
HashSizes == 1..MaxHashSize
Params == (0 - MaxParam)..MaxParam
Moduli == 1..(MaxParam + 1)
Bases == {31} \cup Params

\* code points: NUL, "A", "a" and the largest one
CharCodes == {0, 65, 97, 1114111}
Strings == UNION {[1..n -> CharCodes] : n \in 0..MaxStrLen}

\* the function named fn applied to its arguments
Apply(fn, args) ==
    CASE fn = "division" -> division_hash(args[1], args[2])
      [] fn = "universal" -> universal_hash(args[1], args[2], args[3], args[4], args[5])
      [] fn = "simple" -> string_hash_simple(args[1], args[2])
      [] fn = "polynomial" -> string_hash_polynomial(args[1], args[2], args[3])
      [] fn = "djb2" -> string_hash_djb2(args[1], args[2])

\* the argument tuples a caller passes to the function named fn
ArgsOf(fn) ==
    CASE fn = "division" -> HashKeys \X HashSizes
      [] fn = "universal" -> HashKeys \X HashSizes \X Params \X Params \X Moduli
      [] fn = "simple" -> Strings \X HashSizes
      [] fn = "polynomial" -> Strings \X HashSizes \X Bases
      [] fn = "djb2" -> Strings \X HashSizes

HashNames == {"division", "universal", "simple", "polynomial", "djb2"}

\* a call fn(args) that has not returned yet; args[2] is table_size
Pending(fn, args) ==
    [fn |-> fn, args |-> args, table_size |-> args[2], done |-> FALSE, index |-> 0]

\* a caller is about to call one of the functions
InitHash ==
    /\ kind = "hash"
    /\ size0 = 0
    /\ size = 0
    /\ count = 0
    /\ table = NoTable
    /\ buckets = NoTable
    /\ probe_type = "none"
    /\ thrNum = 1 /\ thrDen = 1
    /\ probe_count = 0
    /\ comparison_count = 0
    /\ live = <<>>
    /\ inserted = {}
    /\ peer = NoTable
    /\ \E fn \in HashNames : \E args \in ArgsOf(fn) : hashed = Pending(fn, args)
    /\ stack = NoFrames

\* the pending call of fn returns its index
HashCall(fn) ==
    /\ kind = "hash"
    /\ hashed.fn = fn
    /\ ~hashed.done
    /\ hashed' = [hashed EXCEPT !.done = TRUE, !.index = Apply(fn, hashed.args)]
    /\ UNCHANGED <<kind, size0, size, count, table, buckets, probe_type, thrNum,
                   thrDen, probe_count, comparison_count, live, inserted, peer, stack>>

CallDivision == HashCall("division")

CallUniversal == HashCall("universal")

CallSimple == HashCall("simple")

CallPolynomial == HashCall("polynomial")

CallDjb2 == HashCall("djb2")

NextHash == CallDivision \/ CallUniversal \/ CallSimple \/ CallPolynomial \/ CallDjb2

SpecHash == InitHash /\ [][NextHash]_vars

\* the r in 0..m-1 with k = q * m + r for an integer q
FloorMod(k, m) ==
    CHOOSE r \in 0..(m - 1) :
        \E q \in (0 - MaxHashKey - 1)..(MaxHashKey + 1) : k = q * m + r

\* C18: for every integer key k, negative ones included, and every table size
\* m > 0, division_hash(k, m) is in [0, m) and is the floor-mod of k by m.
C18_DivisionHashFloorMod ==
    (hashed.fn = "division" /\ hashed.done) =>
        /\ hashed.index \in 0..(hashed.table_size - 1)
        /\ hashed.index = FloorMod(hashed.args[1], hashed.table_size)

\* division_hash has returned a nonzero index for a negative key
C18_Witness ==
    hashed.fn = "division" /\ hashed.done /\ hashed.args[1] < 0 /\ hashed.index > 0

\* C19: universal_hash (with p > 0), string_hash_simple, string_hash_polynomial
\* and string_hash_djb2 return an index in [0, table_size) for every key and
\* every table_size > 0, and the index is the one the same arguments give again.
C19_HashInRange ==
    (hashed.fn \in {"universal", "simple", "polynomial", "djb2"} /\ hashed.done) =>
        /\ hashed.index \in 0..(hashed.table_size - 1)
        /\ hashed.index = Apply(hashed.fn, hashed.args)

\* universal_hash has returned a nonzero index for a negative key with a
\* negative a
C19_Witness ==
    /\ hashed.fn = "universal"
    /\ hashed.done
    /\ hashed.args[1] < 0
    /\ hashed.args[3] < 0
    /\ hashed.index > 0


\* C20: open addressing: delete(k) changes the result of search(k2) for no other
\* key k2; a key placed further along a probe sequence is still found after an
\* earlier slot of the sequence has become DELETED.  Stated on the result of
\* every delete that can be called in a reachable state.
C20_TombstonesKeepChains ==
    kind = "oa" =>
        \A k \in Keys : \A k2 \in Keys \ {k} :
            OA_search(OA_delete(OAState, k).s, k2).ret = OAFind(k2)

\* a delete has left DELETED in the first slot of the probe sequence of a key
\* that is stored further along it and found
C20_Witness ==
    /\ kind = "oa"
    /\ \E k2 \in Keys :
          /\ table[hash_func(k2, size)].tag = "D"
          /\ OAStored(k2)
          /\ OAFind(k2) # 0


\* ------------------------------------------ open addressing: slots and count
\* a slot may go from a to b between resizes
SlotStep(a, b) ==
    \/ b = a
    \/ a.tag = "E" /\ b.tag = "O"
    \/ a.tag = "O" /\ b.tag = "O" /\ b.key = a.key
    \/ a.tag = "O" /\ b.tag = "D"
    \/ a.tag = "D" /\ b.tag = "O"

\* C21: open addressing: in every step that does not resize the table, each
\* slot stays as it is or goes Empty -> Occupied, Occupied -> Occupied with the
\* same key, Occupied -> Tombstone or Tombstone -> Occupied; no slot returns to
\* Empty and no Occupied slot gets another key.
C21_SlotLifecycle ==
    [][(kind = "oa" /\ size' = size) =>
          \A i \in DOMAIN table : SlotStep(table[i], table'[i])]_vars

\* a table that was never resized holds a Tombstone next to an Occupied slot
C21_Witness ==
    /\ kind = "oa"
    /\ ~Resized
    /\ \E i, j \in DOMAIN table : table[i].tag = "D" /\ table[j].tag = "O"

\* the number of Occupied slots
OccupiedCount == Cardinality({i \in DOMAIN table : table[i].tag = "O"})

\* C22: open addressing: in every reachable state count is the number of
\* Occupied slots, and 0 <= count <= size.
C22_CountIsOccupied ==
    kind = "oa" =>
        /\ count = OccupiedCount
        /\ 0 <= count
        /\ count <= size

\* a resized table with a Tombstone and two Occupied slots
C22_Witness ==
    /\ kind = "oa"
    /\ Resized
    /\ count >= 2
    /\ \E i \in DOMAIN table : table[i].tag = "D"


\* ------------------------------------------------- tables with any threshold
\* load_factor_threshold is a constructor argument of both classes; the values
\* a caller passes here are 1/4, 1/2 and the two defaults.
ThresholdArgs == {<<1, 4>>, <<1, 2>>, <<3, 4>>, <<1, 1>>}

\* HashTableOpenAddressing(sz, probe_type = pt, load_factor_threshold = t)
NewOAWith(sz, pt, t) ==
    /\ kind = "oa"
    /\ size0 = sz
    /\ size = sz
    /\ count = 0
    /\ table = [i \in 0..(sz - 1) |-> None]
    /\ buckets = NoTable
    /\ probe_type = pt
    /\ thrNum = t[1] /\ thrDen = t[2]
    /\ probe_count = 0
    /\ comparison_count = 0
    /\ live = [k \in Keys \cup BurstKeys \cup ChainKeys |-> 0]
    /\ inserted = {}
    /\ peer = NoTable
    /\ hashed = NoCall
    /\ stack = NoFrames

\* HashTableSeparateChaining(sz, load_factor_threshold = t)
NewSCWith(sz, t) ==
    /\ kind = "sc"
    /\ size0 = sz
    /\ size = sz
    /\ count = 0
    /\ table = NoTable
    /\ buckets = [i \in 0..(sz - 1) |-> <<>>]
    /\ probe_type = "none"
    /\ thrNum = t[1] /\ thrDen = t[2]
    /\ probe_count = 0
    /\ comparison_count = 0
    /\ live = [k \in Keys \cup BurstKeys \cup ChainKeys |-> 0]
    /\ inserted = {}
    /\ peer = NoTable
    /\ hashed = NoCall
    /\ stack = NoFrames

InitAnyThreshold ==
    \E sz \in 1..MaxInitSize, t \in ThresholdArgs :
        \/ \E pt \in ProbeTypes : NewOAWith(sz, pt, t)
        \/ NewSCWith(sz, t)

\* reset_counts on the fields of an open-addressing table
OA_reset_counts(s) == [s EXCEPT !.probes = 0, !.comps = 0]

\* reset_counts on the fields of a separate-chaining table
SC_reset_counts(s) == [s EXCEPT !.comps = 0]

\* The caller of these tables resets the counters after every call.
\* insert(k, v); reset_counts()
InsertThenReset(k, v) ==
    \/ /\ kind = "oa"
       /\ LET s == OA_insert(OAState, k, v)
          IN  s.size <= MaxSize /\ SetOA(OA_reset_counts(s))
       /\ UNCHANGED <<live, inserted>>
    \/ /\ kind = "sc"
       /\ LET s == SC_insert(SCState, k, v)
          IN  s.size <= MaxSize /\ SetSC(SC_reset_counts(s))
       /\ UNCHANGED <<live, inserted>>

\* delete(k); reset_counts()
DeleteThenReset(k) ==
    \/ /\ kind = "oa"
       /\ SetOA(OA_reset_counts(OA_delete(OAState, k).s))
       /\ UNCHANGED <<live, inserted>>
    \/ /\ kind = "sc"
       /\ SetSC(SC_reset_counts(SC_delete(SCState, k).s))
       /\ UNCHANGED <<live, inserted>>

NextAnyThreshold ==
    \/ \E k \in KeysOf, v \in Values : InsertThenReset(k, v)
    \/ \E k \in KeysOf : DeleteThenReset(k)

SpecAnyThreshold == InitAnyThreshold /\ [][NextAnyThreshold]_vars

\* size and the slots or chains after insert(k, v), whether it returns or raises
Inserted(k, v) ==
    IF kind = "oa" THEN OA_insert(OAState, k, v) ELSE SC_insert(SCState, k, v)

\* no slot of the open-addressing state s is DELETED
NoTombstone(s) == \A i \in DOMAIN s.table : s.table[i].tag # "D"

\* insert(k, v) called now exactly doubles size and leaves no Tombstone
DoublesOnce(k, v) ==
    /\ Inserted(k, v).size = 2 * size
    /\ kind = "oa" => NoTombstone(Inserted(k, v))

\* C23 (as stated): for load_factor_threshold > 0, an insert that triggers a
\* resize exactly doubles size and leaves a table without Tombstones (the
\* inserts of the rehash trigger no resize); both table kinds.
C23_ResizeDoublesOnce ==
    (thrNum > 0 /\ AtThreshold(count, size)) =>
        \A k \in KeysOf, v \in Values : DoublesOnce(k, v)

\* C23 (amended): the same for load_factor_threshold >= 1/2.
C23_ResizeDoublesOnceFromHalf ==
    (2 * thrNum >= thrDen /\ AtThreshold(count, size)) =>
        \A k \in KeysOf, v \in Values : DoublesOnce(k, v)

\* a table at its threshold, with a Tombstone if it has slots, a threshold of at
\* least 1/2 and two entries to rehash
C23_Witness ==
    /\ 2 * thrNum >= thrDen
    /\ AtThreshold(count, size)
    /\ count >= 2
    /\ kind = "oa" => \E i \in DOMAIN table : table[i].tag = "D"


\* --------------------------------------------------------------------- C24
\* C24: every probe step of insert, search or delete on an open-addressing
\* table adds one to probe_count.  A delete that can compute its first probe
\* index executes at least one probe step, so it must leave probe_count larger
\* than it found it.
C24_DeleteCountsProbes ==
    kind = "oa" =>
        \A k \in Keys :
            ~ProbeRaises(size) => OA_delete(OAState, k).s.probes > probe_count

\* --------------------------------------------------------------------- C25
\* what a caller can tell of an open-addressing table apart from its counters
OAContents(s) == [size |-> s.size, count |-> s.count, table |-> s.table, err |-> s.err]

\* what a caller can tell of a separate-chaining table apart from its counter
SCContents(s) == [size |-> s.size, count |-> s.count, buckets |-> s.buckets]

\* insert, search and delete of an open-addressing table started from fields s
\* and from fields z do the same, counters apart
OASameBehaviour(s, z) ==
    /\ \A k \in Keys, v \in Values :
           OAContents(OA_insert(s, k, v)) = OAContents(OA_insert(z, k, v))
    /\ \A k \in Keys :
           LET fs == OA_search(s, k)
               fz == OA_search(z, k)
               ds == OA_delete(s, k)
               dz == OA_delete(z, k)
           IN  /\ fs.ret = fz.ret /\ OAContents(fs.s) = OAContents(fz.s)
               /\ ds.ret = dz.ret /\ OAContents(ds.s) = OAContents(dz.s)

\* the same for a separate-chaining table
SCSameBehaviour(s, z) ==
    /\ \A k \in ChainKeys, v \in Values :
           SCContents(SC_insert(s, k, v)) = SCContents(SC_insert(z, k, v))
    /\ \A k \in ChainKeys :
           LET fs == SC_search(s, k)
               fz == SC_search(z, k)
               ds == SC_delete(s, k)
               dz == SC_delete(z, k)
           IN  /\ fs.ret = fz.ret /\ SCContents(fs.s) = SCContents(fz.s)
               /\ ds.ret = dz.ret /\ SCContents(ds.s) = SCContents(dz.s)

\* insert(k, value_k) on either table, the value the workload gives the key
InsertValueOf(k) == OAInsert(k, ValueOf(k)) \/ SCInsert(k, ValueOf(k))

NextCounters ==
    \/ \E k \in KeysOf : InsertValueOf(k)
    \/ \E k \in Keys : OASearch(k)
    \/ \E k \in Keys : OADelete(k)
    \/ OAResetCounts
    \/ \E k \in ChainKeys : SCSearch(k)
    \/ \E k \in ChainKeys : SCDelete(k)
    \/ SCResetCounts

SpecCounters == Init /\ [][NextCounters]_vars

\* C25: the counters never influence behaviour.  In every reachable state each
\* operation, started from the table as it is and from the same table with its
\* counters at zero, returns the same result and leaves equal contents, count
\* and size (and raises the same exception); by induction on the operation
\* sequence two tables that differ in their counters only stay equal but for
\* the counters.
C25_CountersDoNotSteer ==
    /\ kind = "oa" => OASameBehaviour(OAState, OA_reset_counts(OAState))
    /\ kind = "sc" => SCSameBehaviour(SCState, SC_reset_counts(SCState))

\* an open-addressing table with both counters positive that holds a key behind
\* a Tombstone
C25_Witness ==
    /\ kind = "oa" /\ probe_count > 0 /\ comparison_count > 0
    /\ \E i, j \in DOMAIN table : table[i].tag = "D" /\ table[j].tag = "O"
    /\ \E k \in Keys : OAFind(k) # 0

\* --------------------------------------------------------------------- C26
\* h2 = 1 + (key % (self.size - 1)), the step of _double_hash
h2(key, sz) == 1 + (key % (sz - 1))

\* C26: on a double-hashing table of any size >= 1 the step h2(key) is well
\* defined and >= 1 for every key; for size >= 2 it is not a multiple of size,
\* so two consecutive probe indices are different slots.
C26_DoubleHashStep ==
    (kind = "oa" /\ probe_type = "double") =>
        \A k \in Keys :
            /\ ~DoubleHashRaises(size)
            /\ h2(k, size) >= 1
            /\ size >= 2 =>
                   /\ h2(k, size) % size # 0
                   /\ \A i \in 0..(size - 2) :
                          _double_hash(k, i, size) # _double_hash(k, i + 1, size)

\* --------------------------------------------------------------------- C27
\* the table insert starts probing on: the table after the load-factor check
\* and the resize it may have called
ProbingStart(s) == IF AtThreshold(s.count, s.size) THEN OA_resize(s) ELSE s

\* the slots the probe loop of insert(k, ...) visits on a table of sz slots
LinearProbed(k, sz) == {_linear_probe(k, i, sz) : i \in 0..(sz - 1)}

\* C27: with linear probing and 0 < load_factor_threshold <= 1 no insert
\* raises the table-full error: when its probing starts some slot is None or
\* DELETED, and its size probe attempts visit every slot.
C27_LinearNeverFull ==
    (kind = "oa" /\ probe_type = "linear" /\ 0 < thrNum /\ thrNum <= thrDen) =>
        \A k \in Keys, v \in Values :
            LET s == ProbingStart(OAState)
            IN  /\ OA_insert(OAState, k, v).err # "full"
                /\ \E i \in DOMAIN s.table : s.table[i].tag \in {"E", "D"}
                /\ LinearProbed(k, s.size) = DOMAIN s.table

\* a linear-probing table without a None slot, holding a key next to a Tombstone
C27_Witness ==
    /\ kind = "oa" /\ probe_type = "linear" /\ 0 < thrNum /\ thrNum <= thrDen
    /\ \A i \in DOMAIN table : table[i].tag # "E"
    /\ \E i, j \in DOMAIN table : table[i].tag = "D" /\ table[j].tag = "O"

\* --------------------------------------------------------------------- C28
\* C28: on an open-addressing table an insert(k, v) that returns normally
\* leaves the result of search(k2) as it was for every key k2 other than k,
\* also when the insert resizes the table.
C28_InsertKeepsOtherKeys ==
    kind = "oa" =>
        \A k \in Keys, v \in Values :
            LET s == OA_insert(OAState, k, v)
            IN  s.err = "ok" =>
                    \A k2 \in Keys \ {k} : OA_search(s, k2).ret = OAFind(k2)

\* --------------------------------------------------------------------- C29
\* the key/value pairs stored in the slots t
Pairs(t) == {<<t[i].key, t[i].val>> : i \in {j \in DOMAIN t : t[j].tag = "O"}}

\* C29: when insert on an open-addressing table raises the table-full error,
\* from its own probe loop or from an insert of the rehash, the table keeps its
\* size and its stored key/value pairs.
C29_FullLeavesTable ==
    kind = "oa" =>
        \A k \in BurstKeys :
            LET s == OA_insert(OAState, k, ValueOf(k))
            IN  s.err = "full" => s.size = size /\ Pairs(s.table) = Pairs(table)

\* --------------------------------------------------------------------- C30
\* A call on an open-addressing table followed statement by statement.  A frame
\* is one activation of insert, search, delete or _resize: its arguments, its
\* place (insert: "check" before the load-factor test, "loop" after it), its
\* loop variable i and, for _resize, old_table.
Frame(op, k, v, pc, old) == [op |-> op, key |-> k, val |-> v, pc |-> pc, i |-> 0, old |-> old]

InitSteps == \E sz \in 1..MaxInitSize, pt \in ProbeTypes, t \in ThresholdArgs : NewOAWith(sz, pt, t)

Idle == stack = NoFrames

\* push a frame: a call
Push(f, rest) == <<f>> \o rest

\* the caller resets the counters and calls insert(k, value_k), search(k) or
\* delete(k); it issues no insert that would grow the table beyond MaxSize
Call(op, k) ==
    /\ Idle
    /\ op = "insert" => OA_insert(OAState, k, ValueOf(k)).size <= MaxSize
    /\ stack' = <<Frame(op, k, IF op = "insert" THEN ValueOf(k) ELSE 0,
                        IF op = "insert" THEN "check" ELSE "loop", <<>>)>>
    /\ probe_count' = 0
    /\ comparison_count' = 0
    /\ UNCHANGED <<kind, size0, size, count, table, buckets, probe_type, thrNum, thrDen,
                   live, inserted, peer, hashed>>

\* while i < self.size with <= for <: the loop makes one more round
LoopEnds_OneMore(i, sz) == i > sz

\* the probe loops stop when i < self.size fails
LoopEnds(i, sz) == i >= sz

\* all fields but the stack and those a step names are left alone
StepKeeps == UNCHANGED <<kind, size0, buckets, probe_type, thrNum, thrDen, live, inserted,
                         peer, hashed>>

\* insert: if self._load_factor() >= self.load_factor_threshold: self._resize(),
\* the call entering _resize up to its for loop
InsertCheck ==
    /\ ~Idle
    /\ LET top == Head(stack)
           after == [top EXCEPT !.pc = "loop"]
       IN  /\ top.op = "insert" /\ top.pc = "check"
           /\ IF AtThreshold(count, size)
              THEN /\ size' = 2 * size
                   /\ table' = [i \in 0..(2 * size - 1) |-> None]
                   /\ count' = 0
                   /\ stack' = Push(Frame("resize", 0, 0, "loop", table),
                                    Push(after, Tail(stack)))
              ELSE /\ stack' = Push(after, Tail(stack))
                   /\ UNCHANGED <<size, table, count>>
    /\ UNCHANGED <<probe_count, comparison_count>>
    /\ StepKeeps

\* _resize: one round of for item in old_table, or its return
ResizeStep ==
    /\ ~Idle
    /\ LET top == Head(stack)
           next == [top EXCEPT !.i = @ + 1]
       IN  /\ top.op = "resize"
           /\ stack' = IF top.i \notin DOMAIN top.old THEN Tail(stack)
                       ELSE IF top.old[top.i].tag = "O"
                            THEN Push(Frame("insert", top.old[top.i].key, top.old[top.i].val,
                                            "check", <<>>),
                                      Push(next, Tail(stack)))
                            ELSE Push(next, Tail(stack))
    /\ UNCHANGED <<size, table, count, probe_count, comparison_count>>
    /\ StepKeeps

\* insert: one round of its while loop, its return, or its raise (an exception
\* leaves every frame: no caller in the class catches it)
InsertProbe ==
    /\ ~Idle
    /\ LET top == Head(stack)
           index == _probe(top.key, top.i, size)
       IN  /\ top.op = "insert" /\ top.pc = "loop"
           /\ IF LoopEnds(top.i, size) \/ ProbeRaises(size)
              THEN /\ stack' = NoFrames
                   /\ UNCHANGED <<table, count, probe_count, comparison_count>>
              ELSE /\ probe_count' = probe_count + 1
                   /\ IF table[index].tag \in {"E", "D"}
                      THEN /\ table' = [table EXCEPT ![index] = Entry(top.key, top.val)]
                           /\ count' = count + 1
                           /\ stack' = Tail(stack)
                           /\ UNCHANGED comparison_count
                      ELSE /\ comparison_count' = comparison_count + 1
                           /\ UNCHANGED count
                           /\ IF table[index].key = top.key
                              THEN /\ table' = [table EXCEPT ![index] = Entry(top.key, top.val)]
                                   /\ stack' = Tail(stack)
                              ELSE /\ stack' = Push([top EXCEPT !.i = @ + 1], Tail(stack))
                                   /\ UNCHANGED table
    /\ UNCHANGED size
    /\ StepKeeps

\* search: one round of its while loop, or its return
SearchProbe ==
    /\ ~Idle
    /\ LET top == Head(stack)
           index == _probe(top.key, top.i, size)
       IN  /\ top.op = "search"
           /\ IF LoopEnds(top.i, size) \/ ProbeRaises(size)
              THEN /\ stack' = NoFrames
                   /\ UNCHANGED <<probe_count, comparison_count>>
              ELSE /\ probe_count' = probe_count + 1
                   /\ IF table[index].tag = "E"
                      THEN /\ stack' = Tail(stack)
                           /\ UNCHANGED comparison_count
                      ELSE /\ comparison_count' = comparison_count + 1
                           /\ stack' = IF table[index].tag # "D" /\ table[index].key = top.key
                                       THEN Tail(stack)
                                       ELSE Push([top EXCEPT !.i = @ + 1], Tail(stack))
    /\ UNCHANGED <<size, table, count>>
    /\ StepKeeps

\* delete: one round of its while loop, or its return
DeleteProbe ==
    /\ ~Idle
    /\ LET top == Head(stack)
           index == _probe(top.key, top.i, size)
       IN  /\ top.op = "delete"
           /\ IF LoopEnds(top.i, size) \/ ProbeRaises(size)
              THEN /\ stack' = NoFrames
                   /\ UNCHANGED <<table, count>>
              ELSE IF table[index].tag = "E"
                   THEN /\ stack' = Tail(stack)
                        /\ UNCHANGED <<table, count>>
                   ELSE IF table[index].tag # "D" /\ table[index].key = top.key
                        THEN /\ table' = [table EXCEPT ![index] = DELETED]
                             /\ count' = count - 1
                             /\ stack' = Tail(stack)
                        ELSE /\ stack' = Push([top EXCEPT !.i = @ + 1], Tail(stack))
                             /\ UNCHANGED <<table, count>>
    /\ UNCHANGED <<size, probe_count, comparison_count>>
    /\ StepKeeps

\* the statements of the call in progress
Running == InsertCheck \/ ResizeStep \/ InsertProbe \/ SearchProbe \/ DeleteProbe

NextSteps ==
    \/ \E op \in {"insert", "search", "delete"}, k \in Keys : Call(op, k)
    \/ InsertCheck
    \/ ResizeStep
    \/ InsertProbe
    \/ SearchProbe
    \/ DeleteProbe

\* The interpreter runs a call that has been made: its next statement is
\* executed as long as there is one.
SpecSteps == InitSteps /\ [][NextSteps]_vars /\ WF_vars(Running)

\* every probe loop has made at most size rounds, every _resize at most one
\* round per slot of old_table
LoopsBounded ==
    \A n \in 1..Len(stack) :
        IF stack[n].op = "resize"
        THEN stack[n].i <= Cardinality(DOMAIN stack[n].old)
        ELSE stack[n].i <= size

\* C30: every insert, search and delete on an open-addressing table with
\* load_factor_threshold > 0 terminates: its probe loops make at most size
\* rounds each, a resize makes one round per old slot, and the call returns
\* (or raises).
C30_Terminates == [](thrNum > 0 => LoopsBounded) /\ (~Idle ~> Idle)

\* a search has run its loop to the end on a resized table that holds a
\* Tombstone and no None slot
C30_Witness ==
    /\ ~Idle /\ Head(stack).op = "search" /\ Head(stack).i = size
    /\ Resized
    /\ \A i \in DOMAIN table : table[i].tag # "E"
    /\ \E i \in DOMAIN table : table[i].tag = "D"

====
